---- MODULE Spec2Model ----
(***************************************************************************)
(* x-deleter (src/src/index.ts): a sequential script that fetches one page *)
(* of the user's posts and deletes all of them but the first, sleeping     *)
(* between API calls and on rate-limit errors.                             *)
(*                                                                         *)
(* Time is kept in milliseconds since the epoch.  The epoch values are     *)
(* small (TLC integers are 32 bit); every duration of the source keeps its *)
(* value.  A value the source holds in seconds (resetTimestamp, now,       *)
(* waitSeconds) may be fractional there, so it is kept here multiplied by  *)
(* 1000, as an integer number of milliseconds.                             *)
(***************************************************************************)
EXTENDS Integers, Sequences, FiniteSets

(* ------------------------------ bounds -------------------------------- *)
\* Page size of the candidate fetch.  The source asks for max_results: 100
\* (index.ts line 113); the model scales the page down.
MaxResults == 3
\* The user has 0 .. MaxPosts posts before the run: one more than a page.
MaxPosts == MaxResults + 1
\* Rate-limit errors the platform raises on me()/userTimeline() in one run.
MaxRateLimits == 4
\* Wall-clock time at process start (ms) and the time one API call takes.
StartTime == 5000123
ApiLatency == 250

(* ------------------------- program constants -------------------------- *)
DELETE_INTERVAL == 5000
MIN_API_LIMIT_WAIT == 900000
MAX_API_LIMIT_WAIT == 3600000
MAX_RETRIES == 3
\* max_results of the preflight timeline call
PreflightResults == 5
\* the safety margin added in calculateWaitTime
SafetyMargin == 60000

NULL == "null"
UserIdOfMe == "uid"

Min(a, b) == IF a <= b THEN a ELSE b

(* --------------------------- values --------------------------------- *)
\* A value of type string | number | undefined | null (the parameter of
\* calculateWaitTime).  A number is epoch seconds; a string is an ISO-8601
\* timestamp, held as its seconds and milliseconds parts ("" is the empty
\* string).
Undefined == [type |-> "undefined", sec |-> 0, milli |-> 0]
Null == [type |-> "null", sec |-> 0, milli |-> 0]
Num(n) == [type |-> "number", sec |-> n, milli |-> 0]
Str(s, m) == [type |-> "string", sec |-> s, milli |-> m]
EmptyStr == [type |-> "string", sec |-> -1, milli |-> -1]

\* JavaScript's !resetTime (line 29)
Falsy(v) ==
  \/ v.type \in {"undefined", "null"}
  \/ v.type = "number" /\ v.sec = 0
  \/ v = EmptyStr

\* new Date(resetTime).getTime(): milliseconds since the epoch (line 32)
DateGetTime(v) == v.sec * 1000 + v.milli

calculateWaitTimeUncapped(resetTime, dateNow) ==
  IF Falsy(resetTime) THEN MIN_API_LIMIT_WAIT
  ELSE LET resetTimestamp == IF resetTime.type = "string" THEN DateGetTime(resetTime)
                             ELSE IF resetTime.type = "number" THEN resetTime.sec * 1000
                             ELSE dateNow
           now == (dateNow \div 1000) * 1000
           waitSeconds == resetTimestamp - now
       IN IF waitSeconds <= 0 THEN MIN_API_LIMIT_WAIT
          ELSE waitSeconds + SafetyMargin

calculateWaitTimeNoFloor(resetTime, dateNow) ==
  IF Falsy(resetTime) THEN MIN_API_LIMIT_WAIT
  ELSE LET resetTimestamp == IF resetTime.type = "string" THEN DateGetTime(resetTime)
                             ELSE IF resetTime.type = "number" THEN resetTime.sec * 1000
                             ELSE dateNow
           now == (dateNow \div 1000) * 1000
           waitSeconds == resetTimestamp - now
       IN IF waitSeconds <= 0 THEN SafetyMargin
          ELSE Min(waitSeconds + SafetyMargin, MAX_API_LIMIT_WAIT)

calculateWaitTimeNoMargin(resetTime, dateNow) ==
  IF Falsy(resetTime) THEN MIN_API_LIMIT_WAIT
  ELSE LET resetTimestamp == IF resetTime.type = "string" THEN DateGetTime(resetTime)
                             ELSE IF resetTime.type = "number" THEN resetTime.sec * 1000
                             ELSE dateNow
           now == (dateNow \div 1000) * 1000
           waitSeconds == resetTimestamp - now
       IN IF waitSeconds <= 0 THEN MIN_API_LIMIT_WAIT
          ELSE Min(waitSeconds, MAX_API_LIMIT_WAIT)

\* lines 28-40; resetTimestamp, now and waitSeconds are held times 1000
calculateWaitTime(resetTime, dateNow) ==
  IF Falsy(resetTime) THEN MIN_API_LIMIT_WAIT
  ELSE LET resetTimestamp == IF resetTime.type = "string" THEN DateGetTime(resetTime)
                             ELSE IF resetTime.type = "number" THEN resetTime.sec * 1000
                             ELSE dateNow
           now == (dateNow \div 1000) * 1000
           waitSeconds == resetTimestamp - now
       IN IF waitSeconds <= 0 THEN MIN_API_LIMIT_WAIT
          ELSE Min(waitSeconds + SafetyMargin, MAX_API_LIMIT_WAIT)

(* --------------------------- the platform ----------------------------- *)
\* Post ids are 1 .. MaxPosts; a larger id is a newer post.
\* created_at of a post, an ISO-8601 string; every post predates the run.
\* The field is optional in TweetV2: the oldest post comes without it.
CreatedAt(id) == IF id = 1 THEN Undefined ELSE Str(id * 60, 500)

Tweet(id) == [id |-> id, created_at |-> CreatedAt(id)]

Newest(S) == CHOOSE x \in S : \A y \in S : y <= x

\* One page of the user's timeline: the newest max_results posts, newest
\* first (the platform's ordering).
RECURSIVE TimelinePage(_, _)
TimelinePage(posts, max_results) ==
  IF posts = {} \/ max_results = 0 THEN <<>>
  ELSE <<Tweet(Newest(posts))>> \o TimelinePage(posts \ {Newest(posts)}, max_results - 1)

\* Errors the API client throws.  rateLimitError is ApiResponseError's flag;
\* reset is error.rateLimit?.reset (epoch seconds, or undefined).
NoError == [class |-> "none", code |-> 0, rateLimitError |-> FALSE, reset |-> Undefined]
RateLimitError(reset) ==
  [class |-> "ApiResponseError", code |-> 429, rateLimitError |-> TRUE, reset |-> reset]
OtherError ==
  [class |-> "ApiResponseError", code |-> 403, rateLimitError |-> FALSE, reset |-> Undefined]

\* Reset values a rate-limit error may carry at time t: none, or 10 minutes ahead.
ResetOffsets == {600}
Resets(t) == {Undefined} \cup {Num(t \div 1000 + off) : off \in ResetOffsets}
RateLimitErrors(t) == {RateLimitError(r) : r \in Resets(t)}
AnyErrors(t) == RateLimitErrors(t) \cup {OtherError}

isRateLimitError(error) == error.class = "ApiResponseError" /\ error.rateLimitError

(* ------------------------------ state --------------------------------- *)
VARIABLES
  pc,             \* position of the script
  USERNAME,       \* process.env.X_USERNAME || ''
  USER_ID,        \* the module-level cache of the user id
  platform,       \* ids of the user's posts that exist on the platform
  clock,          \* Date.now()
  log,            \* API calls and sleeps so far, in order
  userId,         \* getAllTweetsAtOnce's local userId
  tweets,         \* deleteTweets' local tweets
  tweetsToDelete, \* deleteTweets' local tweetsToDelete
  idx,            \* position of the for loop in tweetsToDelete (1-based)
  deletedCount,
  failedCount,
  outcome,        \* how the process ended
  cw              \* one application of calculateWaitTime: input, Date.now(), result

vars == <<pc, USERNAME, USER_ID, platform, clock, log, userId, tweets,
          tweetsToDelete, idx, deletedCount, failedCount, outcome, cw>>

\* log entries
Call(op, arg, error, at) ==
  [op |-> op, arg |-> arg, ok |-> (error = NoError), error |-> error, at |-> at]
Slept(ms, at) ==
  [op |-> "sleep", arg |-> ms, ok |-> TRUE, error |-> NoError, at |-> at]

RateLimitsSoFar ==
  Cardinality({k \in DOMAIN log :
     log[k].op \in {"me", "userTimeline"} /\ isRateLimitError(log[k].error)})

NoCalc == [input |-> Undefined, now |-> 0, result |-> -1]

Init ==
  /\ pc = "start"
  /\ USERNAME \in {"", "alice"}
  /\ USER_ID = NULL
  /\ platform \in {1 .. p : p \in 0 .. MaxPosts}
  /\ clock = StartTime
  /\ log = <<>>
  /\ userId = NULL
  /\ tweets = <<>>
  /\ tweetsToDelete = <<>>
  /\ idx = 1
  /\ deletedCount = 0
  /\ failedCount = 0
  /\ outcome = "running"
  /\ cw = NoCalc

\* The exit status of the process: process.exit(1) on line 12, else 0 when
\* the script has run to its end.
ExitStatus(o) == IF o = "exit 1" THEN 1 ELSE 0

(* ----------------------------- operations ----------------------------- *)
\* line 10: !USERNAME
UsernameCheckSkipped(u) == FALSE
UsernameMissing(u) == u = ""

\* lines 7-13: the username check at module load
Startup ==
  /\ pc = "start"
  /\ IF UsernameMissing(USERNAME)
       THEN pc' = "exited" /\ outcome' = "exit 1"
       ELSE pc' = "checkApiStatus" /\ outcome' = outcome
  /\ UNCHANGED <<USERNAME, USER_ID, platform, clock, log, userId, tweets,
                 tweetsToDelete, idx, deletedCount, failedCount, cw>>

PreflightIgnored ==
  /\ pc' = "getUserId"
  /\ outcome' = outcome
\* deleteTweets lines 134-138 for checkApiStatus() = false
PreflightFailed ==
  /\ pc' = "exited"
  /\ outcome' = "cannot proceed"

\* checkApiStatus line 65, and lines 69, 76-83 when the timeline call is skipped
checkApiStatus_userByUsername ==
  /\ pc = "checkApiStatus"
  /\ clock' = clock + ApiLatency
  /\ \/ /\ log' = Append(log, Call("userByUsername", 0, NoError, clock'))
        /\ \E hasData \in BOOLEAN :
             pc' = IF hasData THEN "checkApiStatus_timeline" ELSE "getUserId"
        /\ outcome' = outcome
     \/ \E error \in AnyErrors(clock') :
          /\ log' = Append(log, Call("userByUsername", 0, error, clock'))
          /\ PreflightFailed
  /\ UNCHANGED <<USERNAME, USER_ID, platform, userId, tweets,
                 tweetsToDelete, idx, deletedCount, failedCount, cw>>

\* checkApiStatus lines 71-83
checkApiStatus_userTimeline ==
  /\ pc = "checkApiStatus_timeline"
  /\ clock' = clock + ApiLatency
  /\ \/ /\ log' = Append(log, Call("userTimeline", PreflightResults, NoError, clock'))
        /\ pc' = "getUserId"
        /\ outcome' = outcome
     \/ \E error \in AnyErrors(clock') :
          /\ log' = Append(log, Call("userTimeline", PreflightResults, error, clock'))
          /\ PreflightFailed
  /\ UNCHANGED <<USERNAME, USER_ID, platform, userId, tweets,
                 tweetsToDelete, idx, deletedCount, failedCount, cw>>

ErrorRethrown ==
  /\ pc' = "exited"
  /\ outcome' = "rejected"
ErrorRetried ==
  /\ pc' = "getUserId"
  /\ outcome' = outcome
\* lines 105 and 126 (throw error), caught by deleteTweets lines 186-188
UnexpectedError ==
  /\ pc' = "exited"
  /\ outcome' = "unexpected error"

\* lines 98-100 and 119-121: the wait for a rate-limit error caught at time at
RateLimitWaitFloor(error, at) == MIN_API_LIMIT_WAIT
RateLimitWait(error, at) == calculateWaitTime(error.reset, at)

\* lines 103 and 124: after the wait the function calls itself again, whatever
\* the number n of rate-limit errors so far (MAX_RETRIES, line 26, is never read)
GiveUpAfterMaxRetries(n) == IF n >= MAX_RETRIES THEN "exited" ELSE "getUserId"
AfterRateLimitWait(n) == "getUserId"

\* The value getUserId leaves in USER_ID when me() has returned id
\* (lines 94-95: the id is returned, the cache is not written).
CacheAfterMe(cache, id) == cache

\* getUserId lines 90-107, called from getAllTweetsAtOnce line 111
getUserId ==
  /\ pc = "getUserId"
  /\ IF USER_ID # NULL
       THEN /\ userId' = USER_ID
            /\ pc' = "userTimeline"
            /\ UNCHANGED <<USER_ID, clock, log, outcome>>
       ELSE LET at == clock + ApiLatency IN
            \/ /\ log' = Append(log, Call("me", 0, NoError, at))
               /\ clock' = at
               /\ USER_ID' = CacheAfterMe(USER_ID, UserIdOfMe)
               /\ userId' = UserIdOfMe
               /\ pc' = "userTimeline"
               /\ outcome' = outcome
            \/ /\ RateLimitsSoFar < MaxRateLimits
               /\ \E error \in RateLimitErrors(at) :
                    LET waitTime == RateLimitWait(error, at) IN
                    /\ log' = log \o <<Call("me", 0, error, at), Slept(waitTime, at)>>
                    /\ clock' = at + waitTime
               /\ pc' = AfterRateLimitWait(RateLimitsSoFar)
               /\ UNCHANGED <<USER_ID, userId, outcome>>
            \/ /\ log' = Append(log, Call("me", 0, OtherError, at))
               /\ clock' = at
               /\ UnexpectedError
               /\ UNCHANGED <<USER_ID, userId>>
  /\ UNCHANGED <<USERNAME, platform, tweets, tweetsToDelete, idx,
                 deletedCount, failedCount, cw>>

\* line 143: tweets.length <= 1
NothingToDeleteOffByOne(ts) == Len(ts) < 1
NothingToDelete(ts) == Len(ts) <= 1

\* line 150: tweets.slice(1)
SliceNothing(ts) == ts
Slice1(ts) == Tail(ts)

\* getAllTweetsAtOnce lines 112-127, then deleteTweets lines 141-154
getAllTweetsAtOnce ==
  /\ pc = "userTimeline"
  /\ LET at == clock + ApiLatency IN
     \/ /\ log' = Append(log, Call("userTimeline", MaxResults, NoError, at))
        /\ clock' = at
        /\ tweets' = TimelinePage(platform, MaxResults)
        /\ IF NothingToDelete(tweets')
             THEN /\ pc' = "exited"
                  /\ outcome' = "no tweets found"
                  /\ tweetsToDelete' = tweetsToDelete
             ELSE /\ pc' = "deleteLoop"
                  /\ outcome' = outcome
                  /\ tweetsToDelete' = Slice1(tweets')
        /\ idx' = 1
        /\ deletedCount' = 0
        /\ failedCount' = 0
     \/ /\ RateLimitsSoFar < MaxRateLimits
        /\ \E error \in RateLimitErrors(at) :
             LET waitTime == RateLimitWait(error, at) IN
             /\ log' = log \o <<Call("userTimeline", MaxResults, error, at),
                                Slept(waitTime, at)>>
             /\ clock' = at + waitTime
        /\ pc' = AfterRateLimitWait(RateLimitsSoFar)
        /\ UNCHANGED <<tweets, tweetsToDelete, idx, deletedCount, failedCount, outcome>>
     \/ /\ log' = Append(log, Call("userTimeline", MaxResults, OtherError, at))
        /\ clock' = at
        /\ UnexpectedError
        /\ UNCHANGED <<tweets, tweetsToDelete, idx, deletedCount, failedCount>>
  /\ UNCHANGED <<USERNAME, USER_ID, platform, userId, cw>>

\* line 164: the pause after deleting candidate i of n
SuccessPauseButLast(i, n) == IF i = n THEN 0 ELSE DELETE_INTERVAL
SuccessPause(i, n) == DELETE_INTERVAL

\* lines 165-176: the catch block ends and the for loop takes the next tweet
RetrySameTweet(i) == i
AdvanceAfterFailure(i) == i + 1

\* line 174: the pause after a delete failed with another error than 429
FailurePauseSingle == DELETE_INTERVAL
FailurePause == DELETE_INTERVAL * 2

\* line 172: the pause after a delete failed with 429
DeleteRateLimitWaitFromReset(tweet, error, at) == calculateWaitTime(error.reset, at)
DeleteRateLimitWait(tweet, error, at) == calculateWaitTime(tweet.created_at, at)

\* line 166: failedCount++
FailureNotCounted(n) == n
CountFailure(n) == n + 1

\* deleteTweets lines 156-177: one iteration of the for loop
deleteTweets_iteration ==
  /\ pc = "deleteLoop"
  /\ idx <= Len(tweetsToDelete)
  /\ LET tweet == tweetsToDelete[idx]
         at == clock + ApiLatency
     IN \/ /\ platform' = platform \ {tweet.id}
           /\ deletedCount' = deletedCount + 1
           /\ failedCount' = failedCount
           /\ LET ms == SuccessPause(idx, Len(tweetsToDelete)) IN
                /\ log' = log \o <<Call("deleteTweet", tweet.id, NoError, at), Slept(ms, at)>>
                /\ clock' = at + ms
           /\ idx' = idx + 1
        \/ \E error \in AnyErrors(at) :
             LET ms == IF error.code = 429
                         THEN DeleteRateLimitWait(tweet, error, at)
                         ELSE FailurePause
             IN /\ platform' = platform
                /\ deletedCount' = deletedCount
                /\ failedCount' = CountFailure(failedCount)
                /\ log' = log \o <<Call("deleteTweet", tweet.id, error, at), Slept(ms, at)>>
                /\ clock' = at + ms
                /\ idx' = AdvanceAfterFailure(idx)
  /\ UNCHANGED <<pc, USERNAME, USER_ID, userId, tweets, tweetsToDelete, outcome, cw>>

\* deleteTweets lines 179-185: the summary after the loop
deleteTweets_summary ==
  /\ pc = "deleteLoop"
  /\ idx > Len(tweetsToDelete)
  /\ pc' = "exited"
  /\ outcome' = IF failedCount > 0 THEN "completed, some failed" ELSE "completed"
  /\ UNCHANGED <<USERNAME, USER_ID, platform, clock, log, userId, tweets,
                 tweetsToDelete, idx, deletedCount, failedCount, cw>>

Next ==
  \/ Startup
  \/ checkApiStatus_userByUsername
  \/ checkApiStatus_userTimeline
  \/ getUserId
  \/ getAllTweetsAtOnce
  \/ deleteTweets_iteration
  \/ deleteTweets_summary

Spec == Init /\ [][Next]_vars

\* The script is the only thing running: a step that can be taken is taken.
FairSpec == Spec /\ WF_vars(Next)

(* ------------------ calculateWaitTime on its own ---------------------- *)
\* Current times (Date.now(), ms) and reset markers the function is applied
\* to: absent, epoch seconds around the current second, ISO strings around it.
WaitNows == {StartTime - 123, StartTime, StartTime + 876}
WaitOffsets == {-7200, -300, -1, 0, 1, 600, 3539, 3540, 3541, 7200}
WaitMillis == {0, 500}
WaitInputs(t) ==
  {Undefined, Null, EmptyStr, Num(0)}
    \cup {Num(t \div 1000 + off) : off \in WaitOffsets}
    \cup {Str(t \div 1000 + off, m) : off \in WaitOffsets, m \in WaitMillis}

InitWait ==
  /\ pc = "calculateWaitTime"
  /\ USERNAME = "alice"
  /\ USER_ID = NULL
  /\ platform = {}
  /\ clock \in WaitNows
  /\ log = <<>>
  /\ userId = NULL
  /\ tweets = <<>>
  /\ tweetsToDelete = <<>>
  /\ idx = 1
  /\ deletedCount = 0
  /\ failedCount = 0
  /\ outcome = "running"
  /\ \E input \in WaitInputs(clock) : cw = [input |-> input, now |-> clock, result |-> -1]

\* one call of calculateWaitTime (lines 28-40)
calculateWaitTime_call ==
  /\ pc = "calculateWaitTime"
  /\ cw.result = -1
  /\ cw' = [cw EXCEPT !.result = calculateWaitTime(cw.input, clock)]
  /\ UNCHANGED <<pc, USERNAME, USER_ID, platform, clock, log, userId, tweets,
                 tweetsToDelete, idx, deletedCount, failedCount, outcome>>

NextWait == calculateWaitTime_call

SpecWait == InitWait /\ [][NextWait]_vars

\* The run and the single applications of calculateWaitTime together.
InitAll == Init \/ InitWait
NextAll == Next \/ NextWait
SpecAll == InitAll /\ [][NextAll]_vars

(* ======================= properties of the run ======================== *)
IsDelete(e) == e.op = "deleteTweet"
IsMe(e) == e.op = "me"
IsFetch(e) == e.op = "userTimeline" /\ e.arg = MaxResults
IsPreflight(e) ==
  e.op = "userByUsername" \/ (e.op = "userTimeline" /\ e.arg = PreflightResults)
IsSleep(e) == e.op = "sleep"

DeleteCalls == SelectSeq(log, IsDelete)
Count(P(_)) == Cardinality({k \in DOMAIN log : P(log[k])})
FetchReturned == \E k \in DOMAIN log : IsFetch(log[k]) /\ log[k].ok

\* C1: when the fetch returned N > 1 posts, the delete calls are made on
\* posts[1], ..., posts[N-1] in that order (so far a prefix of them, all N-1
\* of them once the run has ended) and never on posts[0], whatever the
\* delete calls answer.
C1_DeletesAllButFirstInOrder ==
  Len(tweets) > 1 =>
    /\ Len(DeleteCalls) <= Len(tweets) - 1
    /\ \A k \in 1 .. Len(DeleteCalls) :
         /\ DeleteCalls[k].arg = tweets[k + 1].id
         /\ DeleteCalls[k].arg # tweets[1].id
    /\ pc = "exited" => Len(DeleteCalls) = Len(tweets) - 1

C1_Witness ==
  /\ pc = "exited"
  /\ Len(tweets) = MaxResults
  /\ \E k \in DOMAIN log : IsDelete(log[k]) /\ log[k].error.code = 429
  /\ \E k \in DOMAIN log : IsDelete(log[k]) /\ log[k].error = OtherError

\* C2: when the fetch returns 0 or 1 posts the run has ended normally
\* ("no tweets found") and no delete call was issued.
C2_NoDeleteForShortList ==
  (FetchReturned /\ Len(tweets) <= 1) =>
    /\ pc = "exited"
    /\ outcome = "no tweets found"
    /\ DeleteCalls = <<>>

C2_Witness ==
  /\ FetchReturned
  /\ Len(tweets) = 1
  /\ pc = "exited"

\* C3: a failed delete (429 or not) is followed by its wait and then by the
\* delete of the following candidate, never of the same post; the loop does
\* not stop at a failure; no candidate gets two delete calls and, once the
\* run has ended, each has got exactly one.
C3_NoAbortNoRetry ==
  /\ \A k \in DOMAIN log :
       (IsDelete(log[k]) /\ ~log[k].ok) =>
         /\ k + 1 <= Len(log)
         /\ IsSleep(log[k + 1])
         /\ k + 2 <= Len(log) =>
              /\ IsDelete(log[k + 2])
              /\ \E j \in 2 .. Len(tweets) - 1 :
                   tweets[j].id = log[k].arg /\ tweets[j + 1].id = log[k + 2].arg
         /\ k + 1 = Len(log) =>
              \/ pc = "deleteLoop"
              \/ /\ pc = "exited"
                 /\ outcome = "completed, some failed"
                 /\ log[k].arg = tweets[Len(tweets)].id
  /\ \A j \in 2 .. Len(tweets) :
       LET calls == {k \in DOMAIN log : IsDelete(log[k]) /\ log[k].arg = tweets[j].id}
       IN /\ Cardinality(calls) <= 1
          /\ pc = "exited" => Cardinality(calls) = 1

C3_Witness ==
  \E k \in DOMAIN log :
    /\ IsDelete(log[k])
    /\ log[k].error.code = 429
    /\ k + 2 <= Len(log)
    /\ IsDelete(log[k + 2])

\* C4: when the run reaches its summary with failedCount = 0 after a
\* non-empty loop, the newest post is the only post of the user left on the
\* platform, however many posts the user had.
C4_OnlyNewestRemains ==
  (pc = "exited" /\ outcome = "completed") => platform = {tweets[1].id}

\* C5: once a preflight call has raised an error the run has ended: that
\* call is the last thing the run did, no whoAmI, 100-post fetch or delete is
\* in the log; and each preflight call is issued at most once per run.
C5_PreflightErrorEndsRun ==
  /\ Cardinality({k \in DOMAIN log : log[k].op = "userByUsername"}) <= 1
  /\ Cardinality({k \in DOMAIN log :
        log[k].op = "userTimeline" /\ log[k].arg = PreflightResults}) <= 1
  /\ \A k \in DOMAIN log :
       (IsPreflight(log[k]) /\ ~log[k].ok) =>
         /\ k = Len(log)
         /\ pc = "exited"
         /\ outcome = "cannot proceed"
         /\ \A j \in DOMAIN log : ~IsMe(log[j]) /\ ~IsFetch(log[j]) /\ ~IsDelete(log[j])

C5_Witness ==
  /\ Len(log) = 2
  /\ log[2].op = "userTimeline"
  /\ log[2].arg = PreflightResults
  /\ isRateLimitError(log[2].error)
  /\ pc = "exited"

\* The wait the specification prescribes for a reset marker at current time
\* t (ms): 900000 without a marker; otherwise, with waitSeconds = reset
\* seconds minus the current epoch second (kept here times 1000), 900000 when
\* waitSeconds <= 0 and min(waitSeconds * 1000 + 60000, 3600000) when it is
\* positive.
MarkerAbsent(marker) == marker.type \in {"undefined", "null"} \/ marker = EmptyStr
MarkerMillis(marker) ==
  IF marker.type = "number" THEN marker.sec * 1000 ELSE marker.sec * 1000 + marker.milli
WaitReference(marker, t) ==
  IF MarkerAbsent(marker) THEN 900000
  ELSE LET waitMillis == MarkerMillis(marker) - (t \div 1000) * 1000
       IN IF waitMillis <= 0 THEN 900000
          ELSE IF waitMillis + 60000 < 3600000 THEN waitMillis + 60000 ELSE 3600000

MeRateLimited(e) == IsMe(e) /\ isRateLimitError(e.error)
FetchRateLimited(e) == IsFetch(e) /\ isRateLimitError(e.error)
MeOtherError(e) == IsMe(e) /\ ~e.ok /\ ~isRateLimitError(e.error)
FetchOtherError(e) == IsFetch(e) /\ ~e.ok /\ ~isRateLimitError(e.error)
MeSucceeded(e) == IsMe(e) /\ e.ok

C6_RetryAfterWait ==
  \A k \in DOMAIN log :
    MeRateLimited(log[k]) =>
      /\ k + 1 <= Len(log)
      /\ IsSleep(log[k + 1])
      /\ log[k + 1].arg = WaitReference(log[k].error.reset, log[k].at)
      /\ k + 2 <= Len(log) => IsMe(log[k + 2])
      /\ k + 1 = Len(log) => pc = "getUserId"

\* C6: every rate-limit error of whoAmI is followed by a sleep of the wait
\* computed from the error's reset value and then by another whoAmI call;
\* and, the platform raising only finitely many rate-limit errors, a run in
\* which whoAmI raises no other error always gets from the identity call to
\* its return with the user id.
C6_IdentityRetriedUntilResolved ==
  /\ []C6_RetryAfterWait
  /\ ([](Count(MeOtherError) = 0)) =>
       ((pc = "getUserId") ~> (pc = "userTimeline" /\ userId = UserIdOfMe))

\* more retries than MAX_RETRIES, then success
C6_Witness ==
  /\ Count(MeRateLimited) > MAX_RETRIES
  /\ Count(IsFetch) = 0
  /\ pc = "userTimeline"
  /\ userId = UserIdOfMe
  /\ MeSucceeded(log[Len(log)])

\* C7: whoAmI succeeds at most once per run, and no whoAmI call is issued
\* after one has succeeded.
C7_IdentityCachedAfterFirstSuccess ==
  /\ Count(MeSucceeded) <= 1
  /\ \A j, k \in DOMAIN log : (j < k /\ MeSucceeded(log[j])) => ~IsMe(log[k])

\* C8: a rate-limit error of the fetch is followed by a sleep of the wait
\* computed from the error's reset value and by a new attempt of the fetch
\* (getAllTweetsAtOnce starts again: the identity call, then the next
\* timeline call is the 100-post fetch); any other error of the identity
\* call or of the fetch is the last thing the run does, and the run has
\* issued no delete call.
C8_FetchRetriedOtherErrorsAbort ==
  /\ \A k \in DOMAIN log :
       FetchRateLimited(log[k]) =>
         /\ k + 1 <= Len(log)
         /\ IsSleep(log[k + 1])
         /\ log[k + 1].arg = WaitReference(log[k].error.reset, log[k].at)
         /\ k + 1 = Len(log) => pc = "getUserId"
         /\ LET later == {j \in DOMAIN log :
                            j > k + 1 /\ ~IsMe(log[j]) /\ ~IsSleep(log[j])}
            IN IF later = {}
                 THEN \/ pc \in {"getUserId", "userTimeline"}
                      \/ pc = "exited" /\ MeOtherError(log[Len(log)])
                 ELSE \A j \in later : (\A i \in later : j <= i) => IsFetch(log[j])
  /\ \A k \in DOMAIN log :
       (MeOtherError(log[k]) \/ FetchOtherError(log[k])) =>
         /\ k = Len(log)
         /\ pc = "exited"
         /\ outcome = "unexpected error"
         /\ DeleteCalls = <<>>

\* more fetch retries than MAX_RETRIES, then the fetch succeeds
C8_Witness ==
  /\ Count(FetchRateLimited) > MAX_RETRIES
  /\ FetchReturned
  /\ pc = "deleteLoop"

\* C9: calculateWaitTime returns what the specification prescribes, for
\* every reset marker and current time; in particular 660000 for a reset 600 s
\* ahead, 3600000 for one 2 hours ahead and 900000 for one 5 minutes past or
\* absent.
C9_WaitTimeAsSpecified ==
  cw.result # -1 =>
    /\ cw.result = WaitReference(cw.input, clock)
    /\ cw.input = Undefined => cw.result = 900000
    /\ cw.input = Num(clock \div 1000 + 600) => cw.result = 660000
    /\ cw.input = Num(clock \div 1000 + 7200) => cw.result = 3600000
    /\ cw.input = Num(clock \div 1000 - 300) => cw.result = 900000

C9_Witness ==
  /\ cw.input = Str(clock \div 1000 + 600, 0)
  /\ cw.result = 660000

\* C10: every successful delete call is followed at once by a sleep of
\* 5000 ms, the last candidate's included: the next delete call, and any
\* later moment of the run such as the summary, is at least 5000 ms after it.
C10_PauseAfterEverySuccess ==
  \A k \in DOMAIN log :
    (IsDelete(log[k]) /\ log[k].ok) =>
      /\ k + 1 <= Len(log)
      /\ IsSleep(log[k + 1])
      /\ log[k + 1].arg = 5000
      /\ clock >= log[k].at + 5000
      /\ k + 2 <= Len(log) => log[k + 2].at >= log[k].at + 5000

C10_Witness ==
  /\ pc = "exited"
  /\ outcome = "completed"
  /\ Len(tweets) = MaxResults
  /\ IsSleep(log[Len(log)])
  /\ IsDelete(log[Len(log) - 1])
  /\ log[Len(log) - 1].arg = tweets[Len(tweets)].id

\* C11: a delete call that fails with another error than 429 is followed
\* by a sleep of 10000 ms (twice the 5000 ms interval) and then by the delete
\* of the next candidate; the failed post stays on the platform and gets no
\* other delete call in the run.
C11_OtherFailurePauseThenAdvance ==
  \A k \in DOMAIN log :
    (IsDelete(log[k]) /\ ~log[k].ok /\ log[k].error.code # 429) =>
      /\ k + 1 <= Len(log)
      /\ IsSleep(log[k + 1])
      /\ log[k + 1].arg = 10000
      /\ log[k + 1].arg = 2 * 5000
      /\ clock >= log[k].at + 10000
      /\ k + 2 <= Len(log) =>
           /\ IsDelete(log[k + 2])
           /\ log[k + 2].at >= log[k].at + 10000
           /\ \E j \in 2 .. Len(tweets) - 1 :
                tweets[j].id = log[k].arg /\ tweets[j + 1].id = log[k + 2].arg
      /\ log[k].arg \in platform
      /\ \A j \in DOMAIN log : (j # k /\ IsDelete(log[j])) => log[j].arg # log[k].arg

C11_Witness ==
  \E k \in DOMAIN log :
    /\ IsDelete(log[k])
    /\ log[k].error = OtherError
    /\ k + 2 <= Len(log)
    /\ IsDelete(log[k + 2])
    /\ pc = "exited"

DeleteSucceeded(e) == IsDelete(e) /\ e.ok
DeleteFailed(e) == IsDelete(e) /\ ~e.ok
FetchedIds == [j \in DOMAIN tweets |-> tweets[j].id]
DeletedIds == [k \in DOMAIN DeleteCalls |-> DeleteCalls[k].arg]

\* C12: deletedCount is the number of delete calls that succeeded so far
\* and failedCount the number that failed, so their sum is the number of
\* candidates processed, and N-1 at the summary; for the fetch [3,2,1] with
\* every delete succeeding the deletes are on 2 then 1 and the counters end
\* as 2 and 0.
C12_CountersMatchOutcomes ==
  /\ deletedCount = Count(DeleteSucceeded)
  /\ failedCount = Count(DeleteFailed)
  /\ deletedCount + failedCount = Len(DeleteCalls)
  /\ pc = "deleteLoop" => deletedCount + failedCount = idx - 1
  /\ (pc = "exited" /\ Len(tweets) > 1) => deletedCount + failedCount = Len(tweets) - 1
  /\ (pc = "exited" /\ FetchedIds = <<3, 2, 1>> /\ Count(DeleteFailed) = 0) =>
       /\ DeletedIds = <<2, 1>>
       /\ deletedCount = 2
       /\ failedCount = 0

C12_Witness ==
  /\ pc = "exited"
  /\ outcome = "completed"
  /\ FetchedIds = <<3, 2, 1>>
  /\ DeletedIds = <<2, 1>>
  /\ deletedCount = 2
  /\ failedCount = 0

\* C13: the run never ends with an error thrown to its caller: an error
\* that escapes identity resolution or the fetch is caught by the top-level
\* catch ("unexpected error") and is the last thing the run does, errors of
\* the preflight and of the deletion loop never get that far, and every run
\* that passed the username check ends with status 0.
C13_ErrorsCaughtAtTopLevel ==
  /\ pc = "exited" =>
       outcome \in {"exit 1", "cannot proceed", "no tweets found", "completed",
                    "completed, some failed", "unexpected error"}
  /\ (pc = "exited" /\ USERNAME # "") => ExitStatus(outcome) = 0
  /\ \A k \in DOMAIN log :
       (~log[k].ok /\ ~isRateLimitError(log[k].error) /\ (IsMe(log[k]) \/ IsFetch(log[k]))) =>
         /\ pc = "exited"
         /\ outcome = "unexpected error"
         /\ k = Len(log)
  /\ outcome = "unexpected error" =>
       /\ log # <<>>
       /\ MeOtherError(log[Len(log)]) \/ FetchOtherError(log[Len(log)])
  /\ \A k \in DOMAIN log :
       (~log[k].ok /\ (IsPreflight(log[k]) \/ IsDelete(log[k]))) =>
         outcome # "unexpected error"

C13_Witness ==
  /\ pc = "exited"
  /\ outcome = "unexpected error"
  /\ Count(MeSucceeded) = 1
  /\ FetchOtherError(log[Len(log)])
  /\ ExitStatus(outcome) = 0

\* C14: with no username configured the process exits with status 1 and
\* has issued no API call of any kind (preflight, identity, fetch, delete)
\* nor slept.
C14_NoUsernameNoNetwork ==
  USERNAME = "" =>
    /\ log = <<>>
    /\ clock = StartTime
    /\ pc \in {"start", "exited"}
    /\ pc = "exited" => (outcome = "exit 1" /\ ExitStatus(outcome) = 1)

C14_Witness ==
  /\ USERNAME = ""
  /\ pc = "exited"
  /\ outcome = "exit 1"
  /\ log = <<>>

DeleteRateLimited(e) == IsDelete(e) /\ e.error.code = 429
CandidateOf(e) == CHOOSE t \in {tweets[j] : j \in DOMAIN tweets} : t.id = e.arg

\* C15: the sleep after a delete call failed with 429 is the wait computed
\* from the candidate's own createdAt at that time, and it is the sleep the
\* run makes whatever reset value the 429 error carries: a run that differs
\* only in that value sleeps as long.
C15_DeleteWaitIgnoresReset ==
  \A k \in DOMAIN log :
    DeleteRateLimited(log[k]) =>
      /\ k + 1 <= Len(log)
      /\ IsSleep(log[k + 1])
      /\ log[k + 1].arg = WaitReference(CandidateOf(log[k]).created_at, log[k].at)
      /\ \A reset \in Resets(log[k].at) :
           DeleteRateLimitWait(CandidateOf(log[k]), RateLimitError(reset), log[k].at)
             = log[k + 1].arg

\* two 429 failures carrying different reset values, slept equally long
C15_Witness ==
  \E j, k \in DOMAIN log :
    /\ DeleteRateLimited(log[j])
    /\ DeleteRateLimited(log[k])
    /\ log[j].error.reset = Undefined
    /\ log[k].error.reset.type = "number"
    /\ WaitReference(log[j].error.reset, log[j].at) # WaitReference(log[k].error.reset, log[k].at)
    /\ log[j + 1].arg = log[k + 1].arg

\* C16: every fetched post's createdAt is absent or not later than the
\* current time, so the sleep after a 429 on a delete is exactly 900000 ms,
\* whatever reset time the error announces.
C16_DeleteRateLimitWaitIsFloor ==
  /\ \A j \in DOMAIN tweets :
       \/ MarkerAbsent(tweets[j].created_at)
       \/ MarkerMillis(tweets[j].created_at) <= clock
  /\ \A k \in DOMAIN log :
       DeleteRateLimited(log[k]) =>
         /\ k + 1 <= Len(log)
         /\ IsSleep(log[k + 1])
         /\ log[k + 1].arg = 900000

\* a 429 whose reset is 10 minutes ahead (a wait of 660000 by the reset),
\* on a post with a createdAt and on the post without one
C16_Witness ==
  /\ \E k \in DOMAIN log :
       /\ DeleteRateLimited(log[k])
       /\ CandidateOf(log[k]).created_at.type = "string"
       /\ WaitReference(log[k].error.reset, log[k].at) = 660000
       /\ log[k + 1].arg = 900000
  /\ \E k \in DOMAIN log :
       /\ DeleteRateLimited(log[k])
       /\ CandidateOf(log[k]).created_at = Undefined
       /\ log[k + 1].arg = 900000

IntegerMarker(marker) == marker.type \in {"undefined", "null", "number"}
InWaitRange(ms) == ms = 900000 \/ (61000 <= ms /\ ms <= 3600000)
StrictlyAhead(marker, t) == marker.type = "number" /\ marker.sec > t \div 1000

\* C17: for an absent marker or any integer epoch-seconds value, at any
\* current time, calculateWaitTime returns 900000 or a value in
\* [61000, 3600000], and less than 900000 only for a reset strictly in the
\* future; so every sleep the run makes after a rate-limit error is positive
\* and at most 3600000 ms, and below 900000 only for such a reset.
C17_WaitTimeRange ==
  /\ (cw.result # -1 /\ IntegerMarker(cw.input)) =>
       /\ InWaitRange(cw.result)
       /\ cw.result < 900000 => StrictlyAhead(cw.input, clock)
  /\ \A k \in DOMAIN log :
       (MeRateLimited(log[k]) \/ FetchRateLimited(log[k]) \/ DeleteRateLimited(log[k])) =>
         /\ k + 1 <= Len(log)
         /\ IsSleep(log[k + 1])
         /\ log[k + 1].arg > 0
         /\ log[k + 1].arg <= 3600000
         /\ InWaitRange(log[k + 1].arg)
         /\ log[k + 1].arg < 900000 =>
              (~IsDelete(log[k]) /\ StrictlyAhead(log[k].error.reset, log[k].at))

\* the smallest wait below the floor: a reset one second ahead
C17_Witness ==
  /\ cw.input = Num(clock \div 1000 + 1)
  /\ cw.result = 61000

RateLimited(e) == MeRateLimited(e) \/ FetchRateLimited(e)

\* a rate-limit error of the identity call or the fetch, however many came
\* before it, leaves the run retrying: not ended, and without a delete call
C18_RateLimitKeepsRetrying ==
  (Len(log) >= 2 /\ RateLimited(log[Len(log) - 1])) =>
    /\ pc = "getUserId"
    /\ outcome = "running"
    /\ DeleteCalls = <<>>

C18_LoopBounded ==
  Len(tweets) > 1 => Len(DeleteCalls) <= Len(tweets) - 1

\* C18: with every API call returning and only finitely many rate-limit
\* errors on identity and fetch, the run ends; the deletion loop always
\* ends, after at most N-1 delete calls, whatever they answer; and as long
\* as the platform goes on answering identity or fetch with rate-limit
\* errors, beyond MAX_RETRIES of them too, the run is retrying and has
\* reached neither a delete nor the summary.
C18_Termination ==
  /\ <>(pc = "exited")
  /\ (pc = "deleteLoop") ~>
       (pc = "exited" /\ outcome \in {"completed", "completed, some failed"})
  /\ []C18_LoopBounded
  /\ []C18_RateLimitKeepsRetrying

\* more rate-limit errors than MAX_RETRIES, on both calls, and a run that
\* went on to delete and ended
C18_Witness ==
  /\ Count(RateLimited) > MAX_RETRIES
  /\ Count(MeRateLimited) >= 1
  /\ Count(FetchRateLimited) >= 1
  /\ Len(DeleteCalls) = MaxResults - 1
  /\ Count(DeleteFailed) >= 1
  /\ pc = "exited"

====
